---- MODULE Spec2Model ----
(***************************************************************************)
(* tust: run a command in a temporary copy of the current directory, show  *)
(* the file-level differences and replay them on confirmation              *)
(* (src/src/main.rs).                                                      *)
(*                                                                         *)
(* The filesystem is one map from absolute paths to nodes.  A path is a    *)
(* sequence of names, a name is a sequence of characters (so that          *)
(* starts_with is computed), a node is a directory or a regular file with  *)
(* its bytes.  Symbolic links and special files are outside the model.     *)
(***************************************************************************)
EXTENDS Naturals, Integers, Sequences, FiniteSets, TLC

\* ------------------------------------------------------------------ bounds
\* entries (files and directories) of the original tree at start
MaxEntries == 1
\* filesystem mutations the child command performs in its working directory
MaxOps == 2
\* longest absolute path (in components) the filesystem accepts (PATH_MAX)
MaxPathLen == 4

\* ------------------------------------------------------------------- names
NameA == <<"a">>
NameB == <<"b">>
UserNames == {NameA, NameB}
Contents == {<< >>, <<0>>, <<1>>}

Root == << >>
WorkDir == << <<"w">> >>
\* std::env::temp_dir()
TempLocation == << <<"t", "m", "p">> >>

\* the literal of tempfile::Builder::prefix
SandboxPrefix == <<"t", "u", "s", "t", "-">>
\* (mutant) the test of clean mode with the dash of the prefix lost
CleanPrefixWithoutDash == <<"t", "u", "s", "t">>

\* the literal of the starts_with test of clean mode
CleanPrefix == <<"t", "u", "s", "t", "-">>

\* str::starts_with
StartsWith(s, pre) ==
    /\ Len(s) >= Len(pre)
    /\ SubSeq(s, 1, Len(pre)) = pre

\* the name tempfile gives a new directory: the prefix and random characters
TempName(suffix) == SandboxPrefix \o suffix

\* --------------------------------------------------------------- filesystem
DirNode == [kind |-> "dir", data |-> << >>]
FileNode(bytes) == [kind |-> "file", data |-> bytes]

Parent(p) == SubSeq(p, 1, Len(p) - 1)
Join(base, rel) == base \o rel
IsUnder(p, d) == Len(p) > Len(d) /\ SubSeq(p, 1, Len(d)) = d
IsAtOrUnder(p, d) == p = d \/ IsUnder(p, d)
RelativeTo(p, d) == SubSeq(p, Len(d) + 1, Len(p))

Exists(f, p) == p \in DOMAIN f
IsDir(f, p) == Exists(f, p) /\ f[p].kind = "dir"
IsFile(f, p) == Exists(f, p) /\ f[p].kind = "file"

\* the entries fs::read_dir yields for a directory
DirEntries(f, d) == {q \in DOMAIN f : Len(q) = Len(d) + 1 /\ Parent(q) = d}

Put(f, p, node) == [q \in DOMAIN f \cup {p} |-> IF q = p THEN node ELSE f[q]]
Without(f, gone) == [q \in DOMAIN f \ gone |-> f[q]]

IoOk(f) == [ok |-> TRUE, fs |-> f]
IoErr(f) == [ok |-> FALSE, fs |-> f]

\* An I/O fault of the environment (permission denied, EIO, ...): the
\* operation op fails on path p.  "io" stands for reading, writing, listing,
\* creating and removing; "stat" for fs::metadata.
Fault(op, p) == [op |-> op, path |-> p]
Fails(bad, op, p) == Fault(op, p) \in bad

\* mkdir(2): the parent is a directory, the path is new and not too long
MkDir(f, p, bad) ==
    IF /\ Len(p) <= MaxPathLen
       /\ ~Fails(bad, "io", p)
       /\ ~Exists(f, p)
       /\ IsDir(f, Parent(p))
    THEN IoOk(Put(f, p, DirNode))
    ELSE IoErr(f)

\* fs::create_dir_all: an existing directory is accepted; missing ancestors
\* are created from the top down; a file on the way is an error, and a
\* failing mkdir leaves the ancestors made before it
RECURSIVE create_dir_all(_, _, _)
create_dir_all(f, p, bad) ==
    IF p = Root \/ IsDir(f, p) THEN IoOk(f)
    ELSE IF Exists(f, p) \/ Len(p) > MaxPathLen THEN IoErr(f)
    ELSE IF IsDir(f, Parent(p)) THEN MkDir(f, p, bad)
    ELSE IF Exists(f, Parent(p)) THEN IoErr(f)
    ELSE LET up == create_dir_all(f, Parent(p), bad)
         IN  IF up.ok THEN MkDir(up.fs, p, bad) ELSE up

\* fs::copy: the source is a regular file; the destination is created or
\* truncated in an existing directory and cannot be a directory
fs_copy(f, from, to, bad) ==
    IF /\ IsFile(f, from)
       /\ ~Fails(bad, "io", from)
       /\ ~Fails(bad, "io", to)
       /\ Len(to) <= MaxPathLen
       /\ IsDir(f, Parent(to))
       /\ ~IsDir(f, to)
    THEN IoOk(Put(f, to, FileNode(f[from].data)))
    ELSE IoErr(f)

\* fs::remove_file: unlink of something that is not a directory
remove_file(f, p, bad) ==
    IF IsFile(f, p) /\ ~Fails(bad, "io", p)
    THEN IoOk(Without(f, {p}))
    ELSE IoErr(f)

\* fs::remove_dir_all: the directory and everything under it
remove_dir_all(f, p, bad) ==
    IF IsDir(f, p) /\ ~Fails(bad, "io", p)
    THEN IoOk(Without(f, {q \in DOMAIN f : IsAtOrUnder(q, p)}))
    ELSE IoErr(f)

\* fs::metadata(p)?.len()
FileLen(f, p) == Len(f[p].data)

\* ------------------------------------------------------------ the algorithms
Leaf(p) == p[Len(p)]

\* (mutant) copy_directory that makes the destination and copies no entry
copy_directory_empty(f, src, dest, bad) == {create_dir_all(f, dest, bad)}

\* copy_directory.  fs::read_dir yields the entries in no specified order, and
\* a failure leaves what was copied before it, so the operator gives the set of
\* possible outcomes, one per order.
RECURSIVE copy_directory(_, _, _, _), CopyEntries(_, _, _, _)
copy_directory(f, src, dest, bad) ==
    LET made == create_dir_all(f, dest, bad)
    IN  IF ~made.ok THEN {made}
        ELSE IF ~IsDir(made.fs, src) \/ Fails(bad, "io", src) THEN {IoErr(made.fs)}
        ELSE CopyEntries(made.fs, DirEntries(made.fs, src), dest, bad)

\* the loop of copy_directory over the entries still to be visited
CopyEntries(f, todo, dest, bad) ==
    IF todo = {} THEN {IoOk(f)}
    ELSE UNION {
        LET dest_path == Join(dest, <<Leaf(entry_path)>>)
            rs == IF IsDir(f, entry_path)
                  THEN copy_directory(f, entry_path, dest_path, bad)
                  ELSE {fs_copy(f, entry_path, dest_path, bad)}
        IN  UNION {IF r.ok
                   THEN CopyEntries(r.fs, todo \ {entry_path}, dest, bad)
                   ELSE {r} : r \in rs}
        : entry_path \in todo}

CollectOk(files) == [ok |-> TRUE, files |-> files]
CollectErr == [ok |-> FALSE, files |-> {}]

\* collect_files: the relative paths of everything under base that is not a
\* directory; an unreadable directory aborts the whole collection
RECURSIVE collect_files(_, _, _, _)
collect_files(f, base, prefix, bad) ==
    IF ~IsDir(f, base) \/ Fails(bad, "io", base) THEN CollectErr
    ELSE LET sub(entry_path) ==
                 LET current_path == Join(prefix, <<Leaf(entry_path)>>)
                 IN  IF IsDir(f, entry_path)
                     THEN collect_files(f, entry_path, current_path, bad)
                     ELSE CollectOk({current_path})
             subs == {sub(e) : e \in DirEntries(f, base)}
         IN  IF \E s \in subs : ~s.ok THEN CollectErr
             ELSE CollectOk(UNION {s.files : s \in subs})

Change(kind, path) == [kind |-> kind, path |-> path]

\* the orders in which a HashSet may be iterated
Orders(S) ==
    {s \in [1..Cardinality(S) -> S] : \A i, j \in DOMAIN s : s[i] = s[j] => i = j}

\* (mutant) the comparison by size alone, the bytes never read
CompareFileBySize(f, original_path, modified_path, bad) ==
    IF Fails(bad, "stat", original_path) \/ Fails(bad, "stat", modified_path)
    THEN "err"
    ELSE IF FileLen(f, original_path) # FileLen(f, modified_path) THEN "modify"
    ELSE "same"

\* (mutant) the test on the bytes inverted: a Modify for equal contents
CompareFileInverted(f, original_path, modified_path, bad) ==
    IF Fails(bad, "stat", original_path) \/ Fails(bad, "stat", modified_path)
    THEN "err"
    ELSE IF FileLen(f, original_path) # FileLen(f, modified_path) THEN "modify"
    ELSE IF Fails(bad, "io", original_path) \/ Fails(bad, "io", modified_path)
    THEN "err"
    ELSE IF f[original_path].data = f[modified_path].data THEN "modify"
    ELSE "same"

\* (mutant) a file that cannot be read passes for unchanged
CompareFileSkippingUnreadable(f, original_path, modified_path, bad) ==
    IF Fails(bad, "stat", original_path) \/ Fails(bad, "stat", modified_path)
    THEN "same"
    ELSE IF FileLen(f, original_path) # FileLen(f, modified_path) THEN "modify"
    ELSE IF Fails(bad, "io", original_path) \/ Fails(bad, "io", modified_path)
    THEN "same"
    ELSE IF f[original_path].data # f[modified_path].data THEN "modify"
    ELSE "same"

\* the body of the third loop of compare_directories for one file of the
\* intersection: "err", "modify" or "same"
CompareFile(f, original_path, modified_path, bad) ==
    IF Fails(bad, "stat", original_path) \/ Fails(bad, "stat", modified_path)
    THEN "err"
    ELSE IF FileLen(f, original_path) # FileLen(f, modified_path) THEN "modify"
    ELSE IF Fails(bad, "io", original_path) \/ Fails(bad, "io", modified_path)
    THEN "err"
    ELSE IF f[original_path].data # f[modified_path].data THEN "modify"
    ELSE "same"

\* compare_directories: Err, or Ok with the change lists it may return (the
\* creations, then the deletions, then the modifications, each group in the
\* iteration order of its HashSet)
compare_directories(f, original, modified, bad) ==
    LET original_files == collect_files(f, original, << >>, bad)
        modified_files == collect_files(f, modified, << >>, bad)
    IN  IF ~original_files.ok \/ ~modified_files.ok
        THEN [ok |-> FALSE, lists |-> {}]
        ELSE LET created == modified_files.files \ original_files.files
                 deleted == original_files.files \ modified_files.files
                 both == original_files.files \cap modified_files.files
                 verdict(p) == CompareFile(f, Join(original, p), Join(modified, p), bad)
                 changed == {p \in both : verdict(p) = "modify"}
                 listOf(kind, order) == [i \in DOMAIN order |-> Change(kind, order[i])]
             IN  IF \E p \in both : verdict(p) = "err"
                 THEN [ok |-> FALSE, lists |-> {}]
                 ELSE [ok |-> TRUE,
                       lists |-> {listOf("Create", c) \o listOf("Delete", d)
                                    \o listOf("Modify", m) :
                                  c \in Orders(created), d \in Orders(deleted),
                                  m \in Orders(changed)}]


\* ------------------------------------------------------------------- state
VARIABLES
    fs,            \* the filesystem: absolute path -> node
    start,         \* the filesystem when the tool was started (history)
    args,          \* Args: [clean, command]
    current_dir,   \* std::env::current_dir()
    pc,            \* where main is
    temp_path,     \* the sandbox directory, Root while there is none
    child_ops,     \* mutations the child command has made so far
    changes,       \* the Vec<Change> compare_directories returned
    next_change,   \* index of the change apply_changes is at
    stage,         \* position inside the arm of the current change
    copied,        \* the filesystem when copy_directory had returned Ok (history)
    compared,      \* the filesystem when compare_directories was called (history)
    status,        \* the ExitStatus of the child, NoStatus before it ended
    input,         \* the line read from standard input
    pending,       \* clean mode: entries of the scan not yet visited
    cleaned_count, \* clean mode: deletions that succeeded
    attempted,     \* clean mode: the directories remove_dir_all was called on, in order
    exit_code,     \* the process's exit status once pc = "exited"
    called,        \* what main has called and how it came out (history)
    fault          \* an operation failed on an injected I/O fault (history)

vars == <<fs, start, args, current_dir, pc, temp_path, child_ops, changes,
          next_change, stage, copied, compared, status, input, pending,
          cleaned_count, attempted, exit_code, called, fault>>

\* ------------------------------------------------------------------ inputs
\* relative paths of the trees: names of the user's files, nested as deep as
\* still fits under a sandbox directory
RelPaths ==
    UNION {[1..n -> UserNames] : n \in 1..(MaxPathLen - Len(TempLocation) - 1)}

NodeValues == {DirNode} \cup {FileNode(c) : c \in Contents}

\* a tree: every entry's parent is the root or a directory of the tree
IsTree(t) ==
    \A p \in DOMAIN t : Len(p) > 1 => Parent(p) \in DOMAIN t /\ t[Parent(p)].kind = "dir"

InitTrees ==
    {t \in UNION {[S -> NodeValues] :
                    S \in {S \in SUBSET RelPaths : Cardinality(S) <= MaxEntries}} :
       IsTree(t)}

\* what else may lie in the temporary location when clean mode runs: two
\* sandboxes left by earlier runs (one with a file in it), a directory and
\* a file that are not sandboxes
LeftoverA == Join(TempLocation, <<TempName(<<"0">>)>>)
LeftoverB == Join(TempLocation, <<TempName(<<"9">>)>>)
OtherDir == Join(TempLocation, <<<<"t", "u", "s", "t">>>>)
OtherFile == Join(TempLocation, <<TempName(<<"f">>)>>)
TempLitter ==
    {[p \in S \cup (IF LeftoverA \in S THEN {Join(LeftoverA, <<NameA>>)} ELSE {}) |->
        IF p \in {LeftoverA, LeftoverB, OtherDir} THEN DirNode ELSE FileNode(<<0>>)] :
     S \in SUBSET {LeftoverA, LeftoverB, OtherDir, OtherFile}}

\* the filesystem holding tree t under directory d and the litter l
Mount(d, t, l) ==
    LET base == {Root, WorkDir, TempLocation}
        placed == {Join(d, p) : p \in DOMAIN t}
    IN  [q \in base \cup placed \cup DOMAIN l |->
            IF q \in DOMAIN l THEN l[q]
            ELSE IF q \in placed THEN t[RelativeTo(q, d)]
            ELSE DirNode]

\* the tree under directory d: relative path -> node
TreeAt(f, d) ==
    [p \in {RelativeTo(q, d) : q \in {q \in DOMAIN f : IsUnder(q, d)}} |-> f[Join(d, p)]]

Commands == {<< >>, <<"cmd">>}
\* the current directory is the project, or the temporary location itself
CurrentDirs == {WorkDir, TempLocation}
\* how the child ends: exit(code), or killed by a signal (no code)
ChildStatuses ==
    {[signaled |-> FALSE, code |-> c] : c \in {0, 1, 2}}
        \cup {[signaled |-> TRUE, code |-> 0]}

\* the random part of a new sandbox's name
RandomSuffixes == {<<"1">>}

NoStatus == [signaled |-> FALSE, code |-> -1]

Whitespace == {" ", "\n"}
\* lines standard input may deliver (the empty one is end of input)
Lines == {<<"y", "\n">>, <<"Y", "\n">>, <<" ", "y", "\n">>, <<"y">>,
          <<"n", "\n">>, <<"y", "e", "s", "\n">>, <<"\n">>, << >>}

\* at most one injected fault per operation, on one of the given paths
Faults(paths) ==
    {{}} \cup {{Fault(op, p)} : op \in {"io", "stat"}, p \in paths}
IoFaults(paths) == {{}} \cup {{Fault("io", p)} : p \in paths}

Init ==
    /\ \E clean \in BOOLEAN, command \in Commands, cwd \in CurrentDirs,
          t \in InitTrees, l \in TempLitter :
          /\ clean \/ l = << >>
          /\ clean => cwd = WorkDir
          /\ fs = Mount(cwd, t, l)
          /\ args = [clean |-> clean, command |-> command]
          /\ current_dir = cwd
    /\ start = fs
    /\ pc = "main"
    /\ temp_path = Root
    /\ child_ops = 0
    /\ changes = << >>
    /\ next_change = 0
    /\ stage = "none"
    /\ copied = << >>
    /\ compared = << >>
    /\ status = NoStatus
    /\ input = << >>
    /\ pending = {}
    /\ cleaned_count = 0
    /\ attempted = << >>
    /\ exit_code = 0
    /\ called = {}
    /\ fault = FALSE

\* --------------------------------------------------------------- exit paths
\* std::process::exit(code): the process ends at once; no destructor runs, so
\* a TempDir that is alive is not dropped.  The status is the low 8 bits.
process_exit(code, f) ==
    /\ pc' = "exited"
    /\ exit_code' = code % 256
    /\ fs' = f

\* Drop for tempfile::TempDir: remove the directory, ignoring any error
DropTempDir(f) ==
    IF temp_path = Root THEN f ELSE remove_dir_all(f, temp_path, {}).fs

\* main returns: its locals are dropped, the exit status is 0
return_from_main(f) ==
    /\ pc' = "exited"
    /\ exit_code' = 0
    /\ fs' = DropTempDir(f)

\* (mutant) clean mode honoured only when no command follows
clean_without_command(a) == a.clean /\ a.command = << >>

\* main, line 30: if args.clean
clean_mode(a) == a.clean

\* (mutant) the usage check left out
is_empty_never(command) == FALSE

\* main, line 46: args.command.is_empty()
is_empty(command) == command = << >>

\* -------------------------------------------------------------------- main
\* main, lines 27-65: the mode, the usage check, the current directory
MainStart ==
    /\ pc = "main"
    /\ UNCHANGED <<start, args, current_dir, temp_path, child_ops, changes,
                   next_change, stage, copied, compared, status, input,
                   cleaned_count, attempted>>
    /\ IF clean_mode(args)
       THEN \E bad \in IoFaults({TempLocation}) :
              IF Fails(bad, "io", TempLocation)
              THEN /\ process_exit(1, fs)
                   /\ fault' = TRUE
                   /\ called' = called \cup {"clean", "read_dir failed"}
                   /\ UNCHANGED pending
              ELSE /\ pc' = "clean"
                   /\ pending' = DirEntries(fs, TempLocation)
                   /\ called' = called \cup {"clean"}
                   /\ UNCHANGED <<fs, exit_code, fault>>
       ELSE IF is_empty(args.command)
       THEN /\ process_exit(1, fs)
            /\ UNCHANGED <<pending, fault, called>>
       ELSE \E cwd_ok \in BOOLEAN :
              IF cwd_ok
              THEN /\ pc' = "tempdir"
                   /\ UNCHANGED <<fs, exit_code, pending, fault, called>>
              ELSE /\ process_exit(1, fs)
                   /\ fault' = TRUE
                   /\ UNCHANGED <<pending, called>>

\* main, lines 67-82: tempfile::Builder::new().prefix("tust-").tempdir()
CreateTempDir ==
    /\ pc = "tempdir"
    /\ UNCHANGED <<start, args, current_dir, child_ops, changes, next_change,
                   stage, copied, compared, status, input, pending,
                   cleaned_count, attempted>>
    /\ called' = called \cup {"tempdir"}
    /\ \E suffix \in RandomSuffixes, bad \in IoFaults({TempLocation}) :
         LET dir == Join(TempLocation, <<TempName(suffix)>>)
             made == IF Fails(bad, "io", TempLocation)
                     THEN IoErr(fs)
                     ELSE MkDir(fs, dir, {})
         IN  /\ ~Exists(fs, dir)
             /\ IF made.ok
                THEN /\ pc' = "copy"
                     /\ temp_path' = dir
                     /\ fs' = made.fs
                     /\ UNCHANGED <<exit_code, fault>>
                ELSE /\ process_exit(1, fs)
                     /\ fault' = TRUE
                     /\ UNCHANGED temp_path

\* main, lines 87-92: copy_directory(&current_dir, temp_path)
CopyToTemp ==
    /\ pc = "copy"
    /\ UNCHANGED <<start, args, current_dir, temp_path, child_ops, changes,
                   next_change, stage, compared, status, input, pending,
                   cleaned_count, attempted>>
    /\ called' = called \cup {"copy_directory"}
    /\ \E bad \in IoFaults({q \in DOMAIN fs : IsAtOrUnder(q, current_dir)}) :
         \E r \in copy_directory(fs, current_dir, temp_path, bad) :
           IF r.ok
           THEN /\ pc' = "spawn"
                /\ fs' = r.fs
                /\ copied' = r.fs
                /\ UNCHANGED <<exit_code, fault>>
           ELSE /\ process_exit(1, r.fs)
                /\ fault' = (fault \/ bad # {})
                /\ UNCHANGED copied

\* main, lines 96-106: Command::new(..).current_dir(temp_path).status(),
\* the start of the child
SpawnChild ==
    /\ pc = "spawn"
    /\ UNCHANGED <<start, args, current_dir, temp_path, child_ops, changes,
                   next_change, stage, copied, compared, status, input, pending,
                   cleaned_count, attempted>>
    /\ called' = called \cup {"spawn"}
    /\ \E started \in BOOLEAN :
         IF started
         THEN /\ pc' = "child"
              /\ UNCHANGED <<fs, exit_code, fault>>
         ELSE /\ process_exit(1, fs)
              /\ fault' = TRUE

\* the child command at work in its working directory, the sandbox: it
\* writes a file, makes a directory or removes an entry
ChildMutates ==
    /\ pc = "child"
    /\ child_ops < MaxOps
    /\ child_ops' = child_ops + 1
    /\ UNCHANGED <<start, args, current_dir, pc, temp_path, changes,
                   next_change, stage, copied, compared, status, input, pending,
                   cleaned_count, attempted, exit_code, called, fault>>
    /\ \E rel \in RelPaths :
         LET p == Join(temp_path, rel)
         IN  /\ IsDir(fs, Parent(p))
             /\ \/ \E c \in Contents :
                     /\ ~IsDir(fs, p)
                     /\ fs' = Put(fs, p, FileNode(c))
                     /\ fs' # fs
                \/ /\ ~Exists(fs, p)
                   /\ fs' = Put(fs, p, DirNode)
                \/ /\ Exists(fs, p)
                   /\ fs' = Without(fs, {q \in DOMAIN fs : IsAtOrUnder(q, p)})

\* ExitStatus::success
success(st) == ~st.signaled /\ st.code = 0

\* (mutant) every failure of the child reported as 1
unwrap_code_as_one(st) == 1

\* main, line 109: status.code().unwrap_or(-1)
unwrap_code(st) == IF st.signaled THEN -1 ELSE st.code

\* main, lines 99-113: status() returns when the child has ended
ChildEnds ==
    /\ pc = "child"
    /\ UNCHANGED <<start, args, current_dir, temp_path, child_ops, changes,
                   next_change, stage, copied, compared, input, pending,
                   cleaned_count, attempted, called, fault>>
    /\ \E st \in ChildStatuses :
         /\ status' = st
         /\ IF success(st)
            THEN /\ pc' = "compare"
                 /\ UNCHANGED <<fs, exit_code>>
            ELSE process_exit(unwrap_code(st), fs)

\* main, lines 117-155: compare_directories(&current_dir, temp_path), the
\* empty list, the display of the changes
CompareTrees ==
    /\ pc = "compare"
    /\ UNCHANGED <<start, args, current_dir, temp_path, child_ops,
                   next_change, stage, copied, status, input, pending,
                   cleaned_count, attempted>>
    /\ compared' = fs
    /\ \E bad \in Faults({q \in DOMAIN fs : IsAtOrUnder(q, current_dir)
                                              \/ IsAtOrUnder(q, temp_path)}) :
         LET r == compare_directories(fs, current_dir, temp_path, bad)
         IN  IF ~r.ok
             THEN /\ process_exit(1, fs)
                  /\ fault' = (fault \/ bad # {})
                  /\ called' = called \cup {"compare_directories", "compare failed"}
                  /\ UNCHANGED changes
             ELSE \E list \in r.lists :
                    /\ changes' = list
                    /\ called' = called \cup {"compare_directories"}
                    /\ UNCHANGED fault
                    /\ IF list = << >>
                       THEN return_from_main(fs)
                       ELSE /\ pc' = "prompt"
                            /\ UNCHANGED <<fs, exit_code>>

\* str::trim
RECURSIVE trim_start(_), trim_end(_)
trim_start(s) ==
    IF s # << >> /\ Head(s) \in Whitespace THEN trim_start(Tail(s)) ELSE s
trim_end(s) ==
    IF s # << >> /\ s[Len(s)] \in Whitespace
    THEN trim_end(SubSeq(s, 1, Len(s) - 1))
    ELSE s
trim(s) == trim_end(trim_start(s))

\* str::to_lowercase on the letters standard input delivers here
LowerOf(c) ==
    CASE c = "Y" -> "y"
      [] c = "N" -> "n"
      [] c = "E" -> "e"
      [] c = "S" -> "s"
      [] OTHER -> c
to_lowercase(s) == [i \in DOMAIN s |-> LowerOf(s[i])]

\* (mutant) the test without to_lowercase
ConfirmedCaseSensitive(line) == trim(line) = <<"y">>

\* main, line 168: the test that lets the changes be applied
Confirmed(line) == to_lowercase(trim(line)) = <<"y">>

\* main, lines 157-174: read one line; anything but "y" aborts
AskConfirmation ==
    /\ pc = "prompt"
    /\ UNCHANGED <<start, args, current_dir, temp_path, child_ops, changes,
                   copied, compared, status, pending, cleaned_count, attempted>>
    /\ \E read_ok \in BOOLEAN :
         IF ~read_ok
         THEN /\ process_exit(1, fs)
              /\ fault' = TRUE
              /\ called' = called \cup {"read_line", "read_line failed"}
              /\ UNCHANGED <<input, next_change, stage>>
         ELSE \E line \in Lines :
                /\ input' = line
                /\ UNCHANGED fault
                /\ IF Confirmed(line)
                   THEN /\ pc' = "apply"
                        /\ next_change' = 1
                        /\ stage' = "begin"
                        /\ called' = called \cup {"read_line", "apply_changes"}
                        /\ UNCHANGED <<fs, exit_code>>
                   ELSE /\ return_from_main(fs)
                        /\ called' = called \cup {"read_line"}
                        /\ UNCHANGED <<next_change, stage>>

\* (mutant) the Create arm without its create_dir_all
apply_change_without_parents(f, original, modified, change, at, bad) ==
    LET original_path == Join(original, change.path)
        modified_path == Join(modified, change.path)
    IN  CASE change.kind = "Create" /\ at = "begin" -> IoOk(f)
          [] change.kind = "Create" /\ at = "copy" ->
               fs_copy(f, modified_path, original_path, bad)
          [] change.kind = "Modify" ->
               fs_copy(f, modified_path, original_path, bad)
          [] change.kind = "Delete" ->
               remove_file(f, original_path, bad)

\* (mutant) Modify with the arguments of fs::copy exchanged
apply_change_reversed(f, original, modified, change, at, bad) ==
    LET original_path == Join(original, change.path)
        modified_path == Join(modified, change.path)
    IN  CASE change.kind = "Create" /\ at = "begin" ->
               create_dir_all(f, Parent(original_path), bad)
          [] change.kind = "Create" /\ at = "copy" ->
               fs_copy(f, modified_path, original_path, bad)
          [] change.kind = "Modify" ->
               fs_copy(f, original_path, modified_path, bad)
          [] change.kind = "Delete" ->
               remove_file(f, original_path, bad)

\* one filesystem operation of an arm of apply_changes: for Create the
\* create_dir_all of the parent (at "begin") and then the copy (at "copy")
apply_change(f, original, modified, change, at, bad) ==
    LET original_path == Join(original, change.path)
        modified_path == Join(modified, change.path)
    IN  CASE change.kind = "Create" /\ at = "begin" ->
               create_dir_all(f, Parent(original_path), bad)
          [] change.kind = "Create" /\ at = "copy" ->
               fs_copy(f, modified_path, original_path, bad)
          [] change.kind = "Modify" ->
               fs_copy(f, modified_path, original_path, bad)
          [] change.kind = "Delete" ->
               remove_file(f, original_path, bad)

\* (mutant) a transactional apply_changes: an error restores what it began with
rolled_back(r, began_with) == began_with

\* apply_changes, the `?` of lines 290, 293, 299 and 303: the error is
\* returned at once and what was done before it (r.fs) stays; nothing is
\* restored from the state apply_changes began with
left_on_error(r, began_with) == r.fs

\* the arm of the change is finished by the operation done at this stage
ArmDone(change, at) == ~(change.kind = "Create" /\ at = "begin")

\* main, lines 176-185 with apply_changes, one filesystem operation at a time:
\* the first error ends the loop (`?`) and main exits with 1; after the last
\* change main returns
ApplyStep ==
    /\ pc = "apply"
    /\ UNCHANGED <<start, args, current_dir, temp_path, child_ops, changes,
                   copied, compared, status, input, pending, cleaned_count,
                   attempted, called>>
    /\ LET change == changes[next_change]
           touched == {Join(current_dir, change.path), Join(temp_path, change.path),
                       Parent(Join(current_dir, change.path))}
       IN  \E bad \in IoFaults(touched) :
             LET r == apply_change(fs, current_dir, temp_path, change, stage, bad)
             IN  IF ~r.ok
                 THEN /\ process_exit(1, left_on_error(r, compared))
                      /\ fault' = (fault \/ bad # {})
                      /\ UNCHANGED <<next_change, stage>>
                 ELSE /\ UNCHANGED fault
                      /\ IF ~ArmDone(change, stage)
                         THEN /\ stage' = "copy"
                              /\ fs' = r.fs
                              /\ UNCHANGED <<pc, next_change, exit_code>>
                         ELSE /\ stage' = "begin"
                              /\ next_change' = next_change + 1
                              /\ IF next_change = Len(changes)
                                 THEN return_from_main(r.fs)
                                 ELSE /\ fs' = r.fs
                                      /\ UNCHANGED <<pc, exit_code>>

\* ------------------------------------------------------------- clean mode
\* the test of clean_temporary_directories, lines 324-327
IsTustDir(f, entry_path) ==
    /\ IsDir(f, entry_path)
    /\ StartsWith(Leaf(entry_path), CleanPrefix)

\* (mutant) a count of the attempts, failed ones included
counted_attempts(count, r) == count + 1

\* clean_temporary_directories, lines 330-340: only Ok(()) counts
counted(count, r) == IF r.ok THEN count + 1 ELSE count

\* clean_temporary_directories, lines 319-345: one entry of the scan; an
\* entry that cannot be read ends the function with Err and main with 1
CleanEntry ==
    /\ pc = "clean"
    /\ UNCHANGED <<start, args, current_dir, temp_path, child_ops, changes,
                   next_change, stage, copied, compared, status, input>>
    /\ \E entry_path \in pending, entry_ok \in BOOLEAN :
         /\ pending' = pending \ {entry_path}
         /\ IF ~entry_ok
            THEN /\ process_exit(1, fs)
                 /\ called' = called \cup {"read_dir failed"}
                 /\ fault' = TRUE
                 /\ UNCHANGED <<attempted, cleaned_count>>
            ELSE /\ UNCHANGED <<pc, exit_code, called>>
                 /\ IF IsTustDir(fs, entry_path)
                    THEN \E bad \in IoFaults({entry_path}) :
                           LET r == remove_dir_all(fs, entry_path, bad)
                           IN  /\ fs' = r.fs
                               /\ attempted' = Append(attempted, entry_path)
                               /\ cleaned_count' = counted(cleaned_count, r)
                               /\ fault' = (fault \/ ~r.ok)
                    ELSE UNCHANGED <<fs, attempted, cleaned_count, fault>>

\* clean_temporary_directories, lines 347-349, and main, lines 33-43
CleanDone ==
    /\ pc = "clean"
    /\ pending = {}
    /\ return_from_main(fs)
    /\ UNCHANGED <<start, args, current_dir, temp_path, child_ops, changes,
                   next_change, stage, copied, compared, status, input, pending,
                   cleaned_count, attempted, called, fault>>

Next ==
    \/ MainStart
    \/ CreateTempDir
    \/ CopyToTemp
    \/ SpawnChild
    \/ ChildMutates
    \/ ChildEnds
    \/ CompareTrees
    \/ AskConfirmation
    \/ ApplyStep
    \/ CleanEntry
    \/ CleanDone

Spec == Init /\ [][Next]_vars

\* ------------------------------------- compare_directories on one tree
\* the trees one entry away from the tree at d: a file written, a directory
\* made, an entry removed
Mutations(f, d) ==
    LET at(rel) == Join(d, rel)
        open == {rel \in RelPaths : IsDir(f, Parent(at(rel)))}
    IN  {Put(f, at(rel), FileNode(c)) :
            rel \in {r \in open : ~IsDir(f, at(r))}, c \in Contents}
        \cup {Put(f, at(rel), DirNode) : rel \in {r \in open : ~Exists(f, at(r))}}
        \cup {Without(f, {q \in DOMAIN f : IsAtOrUnder(q, at(rel))}) :
                 rel \in {r \in open : Exists(f, at(r))}}

\* the tree grows before the call
GrowTree ==
    /\ pc = "main"
    /\ child_ops < MaxOps
    /\ child_ops' = child_ops + 1
    /\ fs' \in Mutations(fs, current_dir) \ {fs}
    /\ UNCHANGED <<start, args, current_dir, pc, temp_path, changes,
                   next_change, stage, copied, compared, status, input, pending,
                   cleaned_count, attempted, exit_code, called, fault>>

\* compare_directories(dir, dir): both arguments the same directory
CompareWithItself ==
    /\ pc = "main"
    /\ pc' = "returned"
    /\ compared' = fs
    /\ LET r == compare_directories(fs, current_dir, current_dir, {})
       IN  IF r.ok
           THEN /\ changes' \in r.lists
                /\ called' = called \cup {"compare_directories"}
           ELSE /\ called' = called \cup {"compare_directories", "compare failed"}
                /\ UNCHANGED changes
    /\ UNCHANGED <<fs, start, args, current_dir, temp_path, child_ops,
                   next_change, stage, copied, status, input, pending,
                   cleaned_count, attempted, exit_code, fault>>

NextCompareSelf ==
    \/ GrowTree
    \/ CompareWithItself

SpecCompareSelf == Init /\ [][NextCompareSelf]_vars
\* ------------------------------------------------------------------- claims
Exited == pc = "exited"
OriginalTree == TreeAt(fs, current_dir)
OriginalAtStart == TreeAt(start, current_dir)
Has(seq, x) == \E i \in DOMAIN seq : seq[i] = x

\* C1: in the pipeline no file or directory under the original (current)
\* directory is created, overwritten or removed before the confirmation has
\* been read as "y" and apply_changes runs.
C1_OriginalUntouchedBeforeApply ==
    (~args.clean /\ "apply_changes" \notin called) => OriginalTree = OriginalAtStart

\* C2: round trip: once apply_changes has run on the list compare_directories
\* returned (no I/O fault injected), it has returned Ok and the original tree
\* is identical to the modified one: same directories, same files, same bytes.
C2_RoundTrip ==
    (Exited /\ "apply_changes" \in called /\ ~fault)
        => /\ exit_code = 0
           /\ OriginalTree = TreeAt(compared, temp_path)

\* the regular files under a directory, read straight off the filesystem
FilesUnder(f, d) ==
    {RelativeTo(q, d) : q \in {q \in DOMAIN f : IsUnder(q, d) /\ f[q].kind = "file"}}

Differ(f, p, q) == Len(f[p].data) # Len(f[q].data) \/ f[p].data # f[q].data

\* C3: the list compare_directories returns is exactly the classification:
\* Create(p) iff p is a file of modified only, Delete(p) iff a file of original
\* only, Modify(p) iff in both and different in size or bytes, nothing for
\* equal files, and every path in at most one change.
C3_Classification ==
    ("compare_directories" \in called /\ "compare failed" \notin called)
        => LET O == FilesUnder(compared, current_dir)
               M == FilesUnder(compared, temp_path)
           IN  /\ \A i \in DOMAIN changes : changes[i].path \in O \cup M
               /\ \A p \in O \cup M :
                    /\ Has(changes, Change("Create", p)) <=> p \in M \ O
                    /\ Has(changes, Change("Delete", p)) <=> p \in O \ M
                    /\ Has(changes, Change("Modify", p)) <=>
                         /\ p \in O \cap M
                         /\ Differ(compared, Join(current_dir, p), Join(temp_path, p))
               /\ \A i, j \in DOMAIN changes :
                    changes[i].path = changes[j].path => i = j

\* a Modify of two files of equal size, beside a file that did not change
C3_Witness ==
    /\ pc = "prompt"
    /\ \E i \in DOMAIN changes :
         /\ changes[i].kind = "Modify"
         /\ FileLen(fs, Join(current_dir, changes[i].path))
              = FileLen(fs, Join(temp_path, changes[i].path))

LineRead == "read_line" \in called /\ "read_line failed" \notin called

\* the line without its terminator is exactly "y" or "Y"
ExactY(line) ==
    (IF line # << >> /\ line[Len(line)] = "\n"
     THEN SubSeq(line, 1, Len(line) - 1) ELSE line) \in {<<"y">>, <<"Y">>}

\* C4 as stated: apply_changes is invoked iff the line read is an exact
\* case-insensitive "y"; any other line ends the run with exit code 0,
\* apply_changes not invoked and the original tree unchanged.
C4_OnlyExactY ==
    LineRead
        => /\ "apply_changes" \in called <=> ExactY(input)
           /\ ~ExactY(input) =>
                Exited /\ exit_code = 0 /\ OriginalTree = OriginalAtStart

\* one "y" or "Y", with nothing but whitespace before and after it
YAmidWhitespace(line) ==
    \E i \in DOMAIN line :
        /\ line[i] \in {"y", "Y"}
        /\ \A j \in DOMAIN line \ {i} : line[j] \in Whitespace

\* C4 amended: apply_changes is invoked iff the line read, with leading and
\* trailing whitespace removed, is a case-insensitive "y"; any other line ends
\* the run with exit code 0, apply_changes not invoked and the original tree
\* unchanged.
C4_OnlyTrimmedY ==
    LineRead
        => /\ "apply_changes" \in called <=> YAmidWhitespace(input)
           /\ ~YAmidWhitespace(input) =>
                Exited /\ exit_code = 0 /\ OriginalTree = OriginalAtStart

\* "Y" was read and the changes are being applied
C4_Witness ==
    /\ LineRead
    /\ input = <<"Y", "\n">>
    /\ "apply_changes" \in called

\* C5: when the child ends with exit status c # 0 the tool exits with exactly
\* c, compare_directories and apply_changes are never invoked and the original
\* tree is unchanged.
C5_ChildFailurePropagated ==
    (status # NoStatus /\ ~status.signaled /\ status.code # 0)
        => /\ Exited
           /\ exit_code = status.code
           /\ "compare_directories" \notin called
           /\ "apply_changes" \notin called
           /\ OriginalTree = OriginalAtStart

\* the child changed its sandbox and ended with status 2
C5_Witness ==
    /\ Exited
    /\ ~status.signaled /\ status.code = 2
    /\ child_ops > 0

\* C6: once the process has exited, a sandbox directory it created exists no
\* longer, on every exit path.
C6_SandboxRemovedAtExit ==
    (Exited /\ temp_path # Root) => ~Exists(fs, temp_path)

ApplyRan == "apply_changes" \in called
\* change i is in effect in the original tree
InEffect(i) ==
    LET p == Join(current_dir, changes[i].path)
    IN  IF changes[i].kind = "Delete"
        THEN ~Exists(fs, p)
        ELSE /\ IsFile(fs, p)
             /\ fs[p].data = compared[Join(temp_path, changes[i].path)].data
\* the original tree is at change i's path as it was when apply_changes began
NotApplied(i) ==
    LET p == Join(current_dir, changes[i].path)
    IN  /\ Exists(fs, p) <=> Exists(compared, p)
        /\ Exists(fs, p) => fs[p] = compared[p]

\* C7: apply_changes works through the list in order and stops at the first
\* change whose operation fails (exit code 1): every change before it stays
\* applied, none after it is applied, nothing is rolled back; without a
\* failure every change is applied and the exit code is 0.
C7_StopsAtFirstFailure ==
    ApplyRan
        => /\ \A i \in DOMAIN changes :
                /\ i < next_change => InEffect(i)
                /\ i > next_change => NotApplied(i)
           /\ Exited => IF next_change <= Len(changes)
                        THEN exit_code = 1
                        ELSE exit_code = 0

\* apply_changes failed at the second change or later, with more to come or not
C7_Witness ==
    /\ ApplyRan
    /\ Exited
    /\ exit_code = 1
    /\ next_change > 1

\* the directories of the temporary location that are sandboxes by name: the
\* prefix given to tempfile, and then anything
SandboxesAtStart ==
    {d \in DirEntries(start, TempLocation) :
        /\ start[d].kind = "dir"
        /\ \E k \in 0..Len(Leaf(d)) :
             Leaf(d) = TempName(SubSeq(Leaf(d), k + 1, Len(Leaf(d))))}

\* C8: clean mode removes only directories directly under the temporary
\* location whose name starts with the prefix sandboxes are created with;
\* everything else, there and elsewhere, is as it was, and nothing is added.
C8_CleanRemovesOnlySandboxes ==
    args.clean
        => /\ DOMAIN fs \subseteq DOMAIN start
           /\ \A q \in DOMAIN start :
                (q \notin DOMAIN fs \/ fs[q] # start[q])
                    => \E d \in SandboxesAtStart : IsAtOrUnder(q, d)

\* a sandbox with a file in it is gone; the directory and the file that only
\* look like sandboxes are still there
C8_Witness ==
    /\ args.clean
    /\ Exited /\ exit_code = 0
    /\ Exists(start, LeftoverA) /\ ~Exists(fs, LeftoverA)
    /\ Exists(fs, OtherDir)
    /\ Exists(fs, OtherFile)

\* C9: in clean mode every matching directory's deletion is attempted, also
\* after one that failed; the count is the number of deletions that succeeded
\* and the run ends with exit code 0.
C9_CleanIndependentDeletions ==
    (Exited /\ "clean" \in called /\ "read_dir failed" \notin called)
        => /\ {attempted[i] : i \in DOMAIN attempted} = SandboxesAtStart
           /\ cleaned_count = Cardinality({d \in SandboxesAtStart : ~Exists(fs, d)})
           /\ exit_code = 0

\* the first deletion failed, the one scanned after it was attempted and
\* succeeded
C9_Witness ==
    /\ Exited /\ exit_code = 0
    /\ attempted = <<LeftoverA, LeftoverB>>
    /\ Exists(fs, LeftoverA)
    /\ ~Exists(fs, LeftoverB)
    /\ cleaned_count = 1

\* C10: when the child exits successfully and the sandbox is as
\* copy_directory left it, compare_directories (unless an I/O fault fails it)
\* returns the empty list and the tool exits with 0 without reading standard
\* input and without invoking apply_changes.
C10_NoChangesNoPrompt ==
    (/\ "compare_directories" \in called
     /\ "compare failed" \notin called
     /\ TreeAt(compared, temp_path) = TreeAt(copied, temp_path))
        => /\ changes = << >>
           /\ Exited
           /\ exit_code = 0
           /\ "read_line" \notin called
           /\ "apply_changes" \notin called

\* a tree with a file in it went through copy, an idle child and compare
C10_Witness ==
    /\ Exited
    /\ "compare_directories" \in called
    /\ child_ops = 0
    /\ FilesUnder(start, current_dir) # {}
    /\ changes = << >>

\* C11: for every tree T, compare_directories(T, T) returns Ok with the
\* empty change list.
C11_SelfCompareEmpty ==
    pc = "returned"
        => /\ "compare failed" \notin called
           /\ changes = << >>

\* a tree with a file below a directory was compared with itself
C11_Witness ==
    /\ pc = "returned"
    /\ \E p \in FilesUnder(compared, current_dir) : Len(p) > 1

\* C12: with the clean flag set, whatever command follows, the run is the
\* clean-all operation alone: no sandbox is created, nothing is copied, no
\* child is started, compare_directories and apply_changes are not invoked.
C12_CleanModeOnly ==
    args.clean
        => /\ pc \in {"main", "clean", "exited"}
           /\ pc # "main" => "clean" \in called
           /\ called \subseteq {"clean", "read_dir failed"}
           /\ temp_path = Root
           /\ DOMAIN fs \subseteq DOMAIN start
           /\ copied = << >>
           /\ child_ops = 0
           /\ status = NoStatus
           /\ compared = << >>
           /\ changes = << >>
           /\ OriginalTree = OriginalAtStart

\* a clean run given a command as well has removed a sandbox and ended
C12_Witness ==
    /\ args.clean
    /\ args.command # << >>
    /\ Exited /\ exit_code = 0
    /\ cleaned_count > 0

\* C13: with clean mode off and no command, the tool ends with exit code 1
\* and without side effects: no sandbox is created, nothing is copied, no
\* child is started and the filesystem is as it was at the start.
C13_UsageError ==
    (/\ ~args.clean
     /\ args.command = << >>
     /\ pc # "main")
        => /\ Exited
           /\ exit_code = 1
           /\ fs = start
           /\ called = {}
           /\ temp_path = Root
           /\ copied = << >>
           /\ child_ops = 0
           /\ status = NoStatus
           /\ ~fault

\* a run without a command, in a directory that holds a file, has ended
C13_Witness ==
    /\ ~args.clean
    /\ args.command = << >>
    /\ Exited
    /\ FilesUnder(start, current_dir) # {}

\* the paths compare_directories may touch, and the failures among them
ComparePaths ==
    {q \in DOMAIN fs : IsAtOrUnder(q, current_dir) \/ IsAtOrUnder(q, temp_path)}

DirectoryUnreadable(bad) ==
    \E d \in ComparePaths : IsDir(fs, d) /\ Fails(bad, "io", d)

InBoth == FilesUnder(fs, current_dir) \cap FilesUnder(fs, temp_path)

MetadataFails(bad) ==
    \E p \in InBoth : \/ Fails(bad, "stat", Join(current_dir, p))
                      \/ Fails(bad, "stat", Join(temp_path, p))

\* fs::read is reached for the files of equal length only
ContentReadFails(bad) ==
    \E p \in InBoth :
        /\ Len(fs[Join(current_dir, p)].data) = Len(fs[Join(temp_path, p)].data)
        /\ \/ Fails(bad, "io", Join(current_dir, p))
           \/ Fails(bad, "io", Join(temp_path, p))

\* C14: when a directory cannot be read during collection, or the metadata
\* or the content of a file of both trees cannot be read, compare_directories
\* returns Err and no list; the tool then exits with code 1, without
\* prompting, the original tree unchanged.
C14_CompareFailure ==
    /\ pc = "compare"
         => \A bad \in Faults(ComparePaths) :
               (DirectoryUnreadable(bad) \/ MetadataFails(bad) \/ ContentReadFails(bad))
                  => LET r == compare_directories(fs, current_dir, temp_path, bad)
                     IN  ~r.ok /\ r.lists = {}
    /\ "compare failed" \in called
         => /\ Exited
            /\ exit_code = 1
            /\ changes = << >>
            /\ "read_line" \notin called
            /\ "apply_changes" \notin called
            /\ OriginalTree = OriginalAtStart

\* the comparison of two trees that share a file failed on an injected fault
C14_Witness ==
    /\ Exited
    /\ "compare failed" \in called
    /\ fault
    /\ FilesUnder(compared, current_dir) \cap FilesUnder(compared, temp_path) # {}

\* where a copy of the sandbox lands when the sandbox is below the copied
\* directory
SandboxInItself == Join(temp_path, RelativeTo(temp_path, current_dir))

\* C15: wherever the sandbox lies relative to the current directory,
\* copy_directory(current_dir, sandbox) never copies the sandbox into itself
\* and, when no I/O fault is injected, finishes and returns Ok.
C15_SnapshotTerminates ==
    "copy_directory" \in called
        => /\ IsUnder(temp_path, current_dir) => ~Exists(fs, SandboxInItself)
           /\ ~fault => copied # << >>

\* every directory from the original root down to d exists
DirsDownTo(d) ==
    \A k \in Len(current_dir)..Len(d) : IsDir(fs, SubSeq(d, 1, k))

\* C16: applying Create(p), apply_changes creates every missing parent
\* directory of original/p first, copies modified/p to original/p only once
\* they exist, and after the arm original/p holds the bytes of modified/p.
C16_CreateParentsThenCopy ==
    ApplyRan
        => \A i \in DOMAIN changes :
              changes[i].kind = "Create"
                 => LET p == Join(current_dir, changes[i].path)
                        now == pc = "apply" /\ i = next_change
                    IN  /\ now => NotApplied(i)
                        /\ (now /\ stage = "copy") => DirsDownTo(Parent(p))
                        /\ i < next_change
                             => /\ DirsDownTo(Parent(p))
                                /\ IsFile(fs, p)
                                /\ fs[p].data
                                     = compared[Join(temp_path, changes[i].path)].data

\* a file was created in a directory the original tree did not have
C16_Witness ==
    /\ ApplyRan
    /\ Exited /\ exit_code = 0
    /\ \E i \in DOMAIN changes :
         /\ changes[i].kind = "Create"
         /\ ~Exists(compared, Parent(Join(current_dir, changes[i].path)))
         /\ IsFile(fs, Join(current_dir, changes[i].path))

\* the relative paths the change list names
ChangedPaths == {changes[i].path : i \in DOMAIN changes}

\* the regular files of the original tree, now or when apply_changes began,
\* that no change of the list names
Unlisted ==
    {q \in DOMAIN fs \cup DOMAIN compared :
        /\ IsUnder(q, current_dir)
        /\ ~IsAtOrUnder(q, temp_path)
        /\ IsFile(fs, q) \/ IsFile(compared, q)
        /\ RelativeTo(q, current_dir) \notin ChangedPaths}

\* C17: apply_changes never creates, overwrites or removes a regular file of
\* the original tree whose relative path no change of the list names, and
\* never writes to the modified tree, whether it succeeds or stops on a
\* failing change.
C17_ApplyFrame ==
    ApplyRan
        => /\ \A q \in Unlisted :
                /\ Exists(fs, q)
                /\ Exists(compared, q)
                /\ fs[q] = compared[q]
           /\ Exists(fs, temp_path)
                => TreeAt(fs, temp_path) = TreeAt(compared, temp_path)
           /\ pc = "apply"
                => LET change == changes[next_change]
                   IN  \A bad \in IoFaults({Join(current_dir, change.path),
                                            Join(temp_path, change.path),
                                            Parent(Join(current_dir, change.path))}) :
                          TreeAt(apply_change(fs, current_dir, temp_path, change,
                                              stage, bad).fs, temp_path)
                             = TreeAt(compared, temp_path)

\* apply_changes stopped on the failing copy of a Create, after it had made
\* the parent directory, in a tree with a file that no change names
C17_Witness ==
    /\ ApplyRan
    /\ Exited /\ exit_code = 1
    /\ stage = "copy"
    /\ Unlisted # {}
====
